---- MODULE Spec2Model ----
(***************************************************************************)
(* The Anthropic adapter of the provider abstraction layer                 *)
(* (llm/src/anthropic/mod.rs, llm/src/anthropic/types.rs).                  *)
(*                                                                         *)
(* One AnthropicProvider instance is shared by the callers in Calls; each  *)
(* caller runs one send_message call.  A call is atomic between its await  *)
(* points: POST issued -> (transport error | response head) -> body.  A    *)
(* request that cannot be built ends the call before anything is sent.     *)
(***************************************************************************)
EXTENDS Integers, Sequences, FiniteSets, TLC

VARIABLES
    provider,   \* the AnthropicProvider instance: api_key (bytes), model, temperature, max_tokens
    messages,   \* messages[c]: the &[Message] caller c passes to send_message
    pc,         \* pc[c]: position of caller c's send_message future
    request,    \* request[c]: Option<MessagesRequest>, the call-local request
    outbound,   \* outbound[c]: the POSTs call c handed to the transport, in order
    reply,      \* reply[c]: what send().await and the body read resolved to so far
    result      \* result[c]: Option<Result<String>>, the value send_message returned

vars == <<provider, messages, pc, request, outbound, reply, result>>

----------------------------------------------------------------------------
(* Bounds *)

\* longest message sequence drawn as an input of convert_messages
MaxLen == 3

\* longest content list of a backend response body
MaxBlocks == 2

----------------------------------------------------------------------------
(* Option<T> as a sequence of length at most one *)

None == <<>>

Some(x) == <<x>>

SeqsUpTo(S, n) == UNION {[1..k -> S] : k \in 0..n}

----------------------------------------------------------------------------
(* agent_core: Role, Message *)

Role == {"System", "User", "Assistant"}

Contents == {"", "hi", "be concise"}

Message == [role : Role, content : Contents]

\* the callers of the shared provider instance
Calls == {"A", "B"}

----------------------------------------------------------------------------
(* AnthropicProvider::convert_message / convert_messages *)

\* mutant: an Assistant turn is emitted with the role "user"
convert_message_all_user(message) ==
    IF message.role = "System"
    THEN None
    ELSE Some([role |-> "user", content |-> message.content])

convert_message(message) ==
    CASE message.role = "System"    -> None
      [] message.role = "User"      ->
            Some([role |-> "user", content |-> message.content])
      [] message.role = "Assistant" ->
            Some([role |-> "assistant", content |-> message.content])

\* mutant: a later System message replaces the earlier ones
merge_system_overwrite(system_message, content) == Some(content)

\* the Role::System arm of the loop: append "\n\n" and the content to an
\* existing system text, or start one
merge_system(system_message, content) ==
    IF system_message # None
    THEN Some(system_message[1] \o "\n\n" \o content)
    ELSE Some(content)

RECURSIVE convert_loop(_, _, _)
convert_loop(rest, system_message, anthropic_messages) ==
    IF rest = <<>>
    THEN <<system_message, anthropic_messages>>
    ELSE LET message == Head(rest) IN
         IF message.role = "System"
         THEN convert_loop(Tail(rest),
                           merge_system(system_message, message.content),
                           anthropic_messages)
         ELSE LET anthropic_msg == convert_message(message) IN
              convert_loop(Tail(rest),
                           system_message,
                           IF anthropic_msg # None
                           THEN Append(anthropic_messages, anthropic_msg[1])
                           ELSE anthropic_messages)

convert_messages(msgs) == convert_loop(msgs, None, <<>>)

----------------------------------------------------------------------------
(* MessagesRequest and its JSON serialization *)

BuildRequest(self, msgs) ==
    LET converted == convert_messages(msgs) IN
    [model       |-> self.model,
     messages    |-> converted[2],
     system      |-> converted[1],
     temperature |-> self.temperature,
     max_tokens  |-> self.max_tokens]

\* mutant: the system key is always written (null for None)
SerializeRequest_always_system(req) ==
    [model       |-> req.model,
     messages    |-> req.messages,
     system      |-> IF req.system = None THEN "null" ELSE req.system[1],
     temperature |-> req.temperature,
     max_tokens  |-> req.max_tokens]

\* #[derive(Serialize)] with skip_serializing_if = "Option::is_none" on system:
\* the JSON object, as a function from its keys
SerializeRequest(req) ==
    LET base == [model       |-> req.model,
                 messages    |-> req.messages,
                 temperature |-> req.temperature,
                 max_tokens  |-> req.max_tokens]
    IN IF req.system = None
       THEN base
       ELSE base @@ [system |-> req.system[1]]

Url == "https://api.anthropic.com/v1/messages"

\* .header("x-api-key", &self.api_key): the value must convert to a
\* HeaderValue, which takes the bytes 32..=255 except 127, and the tab
is_valid_header_value(bytes) ==
    \A i \in 1..Len(bytes) :
        \/ bytes[i] >= 32 /\ bytes[i] # 127
        \/ bytes[i] = 9

Post(self, req) ==
    [url     |-> Url,
     headers |-> ("x-api-key" :> self.api_key)
                 @@ ("anthropic-version" :> "2023-06-01")
                 @@ ("Content-Type" :> "application/json"),
     json    |-> SerializeRequest(req)]

----------------------------------------------------------------------------
(* Result<String> with AgentError *)

Ok(text) == [ok |-> TRUE, text |-> text]

\* every failure of send_message is built as AgentError::LLMProvider(String);
\* the String is kept as the pieces format! puts together
Err(message) == [ok |-> FALSE, variant |-> "LLMProvider", message |-> message]

----------------------------------------------------------------------------
(* What the transport can deliver *)

UNAUTHORIZED == 401

TOO_MANY_REQUESTS == 429

\* a reqwest::Error returned by send().await, by what the closure inspects.
\* status() is Some only for errors made from a response by error_for_status,
\* which send_message never calls, so send() errors carry no status.
TransportErrors ==
    [is_timeout : BOOLEAN, is_connect : BOOLEAN, status : {None}, is_builder : {FALSE}]

\* the reqwest::Error the request builder keeps when a header value is
\* rejected; send() resolves to it without sending anything
BuilderError ==
    [is_timeout |-> FALSE, is_connect |-> FALSE, status |-> None, is_builder |-> TRUE]

StatusCodes == {200, UNAUTHORIZED, TOO_MANY_REQUESTS, 500}

is_success(status) == status \in 200..299

TextBlock(t) == [type |-> "text", text |-> t]

ToolUseBlock == [type |-> "tool_use", id |-> "toolu_1"]

Blocks == {TextBlock("hello"), TextBlock("bye"), ToolUseBlock}

MessageObject(content) ==
    [id |-> "msg_1", type |-> "message", role |-> "assistant",
     content |-> content, model |-> "claude", stop_reason |-> "end_turn"]

ErrorObject == [type |-> "error", error |-> "invalid_request_error"]

\* a response body: one whose read fails (the per-request timeout also covers
\* the body), one that is no JSON, or a JSON object
Bodies ==
    {[kind |-> "read_error", is_timeout |-> t] : t \in BOOLEAN}
    \cup {[kind |-> "not_json"]}
    \cup {[kind |-> "json", value |-> ErrorObject]}
    \cup {[kind |-> "json", value |-> MessageObject(content)] :
            content \in SeqsUpTo(Blocks, MaxBlocks)}

----------------------------------------------------------------------------
(* send_message: translation of failures and of the reply *)

\* the map_err closure on send().await
map_send_error(e) ==
    IF e.is_timeout
    THEN Err(<<"Anthropic API request timeout: ", e>>)
    ELSE IF e.is_connect
    THEN Err(<<"Anthropic API connection error: ", e>>)
    ELSE IF e.status = Some(UNAUTHORIZED)
    THEN Err(<<"Anthropic API authentication failed: Invalid API key">>)
    ELSE IF e.status = Some(TOO_MANY_REQUESTS)
    THEN Err(<<"Anthropic API rate limit exceeded">>)
    ELSE Err(<<"Anthropic API request failed: ", e>>)

\* response.text().await.unwrap_or_else(..)
error_text(body) ==
    IF body.kind = "read_error"
    THEN "Unable to read error response"
    ELSE body

\* the !status.is_success() branch
http_error(status, body) ==
    Err(<<"Anthropic API HTTP ", status, " error: ", error_text(body)>>)

MessagesResponseFields == {"id", "type", "role", "content", "model"}

ContentBlockFields == {"type", "text"}

\* response.json::<MessagesResponse>(): the body is read, parsed and matched
\* against the derive(Deserialize) shapes; unknown keys are ignored
json(body) ==
    IF body.kind = "read_error"
    THEN [ok |-> FALSE, error |-> body]
    ELSE IF body.kind = "not_json"
    THEN [ok |-> FALSE, error |-> "decode"]
    ELSE LET v == body.value IN
         IF /\ MessagesResponseFields \subseteq DOMAIN v
            /\ \A i \in 1..Len(v.content) :
                  ContentBlockFields \subseteq DOMAIN v.content[i]
         THEN [ok |-> TRUE,
               value |-> [id            |-> v.id,
                          response_type |-> v.type,
                          role          |-> v.role,
                          content       |-> [i \in 1..Len(v.content) |->
                                               [content_type |-> v.content[i].type,
                                                text         |-> v.content[i].text]],
                          model         |-> v.model,
                          stop_reason   |-> IF "stop_reason" \in DOMAIN v
                                            THEN Some(v.stop_reason) ELSE None]]
         ELSE [ok |-> FALSE, error |-> "decode"]

\* mutant: an empty content list is answered with an empty text
extract_text_default(messages_response) ==
    IF messages_response.content # <<>>
    THEN Ok(messages_response.content[1].text)
    ELSE Ok("")

\* mutant: the last content item is taken
extract_text_last(messages_response) ==
    IF messages_response.content # <<>>
    THEN Ok(messages_response.content[Len(messages_response.content)].text)
    ELSE Err(<<"Anthropic response contained no content">>)

\* content.first().map(|content| content.text.clone()).ok_or_else(..)
extract_text(messages_response) ==
    IF messages_response.content # <<>>
    THEN Ok(messages_response.content[1].text)
    ELSE Err(<<"Anthropic response contained no content">>)

\* the deserialization step and the extraction after it
translate_body(body) ==
    LET parsed == json(body) IN
    IF parsed.ok
    THEN extract_text(parsed.value)
    ELSE Err(<<"Failed to deserialize Anthropic response: ", parsed.error>>)

----------------------------------------------------------------------------
(* The state machine *)

\* the providers new() can build: it copies the configuration unchecked.
\* The keys are "sk-1", "sk-2" and "sk-3\n" (a key kept with its line end).
Providers ==
    {[api_key |-> <<115, 107, 45, 49>>, model |-> "claude-a",
      temperature |-> "0.7", max_tokens |-> 1024],
     [api_key |-> <<115, 107, 45, 50>>, model |-> "claude-b",
      temperature |-> "0.0", max_tokens |-> 256],
     [api_key |-> <<115, 107, 45, 51, 10>>, model |-> "claude-a",
      temperature |-> "0.7", max_tokens |-> 1024]}

RoundTripInput ==
    <<[role |-> "System", content |-> "be concise"],
      [role |-> "User", content |-> "hi"]>>

\* the conversations the concurrent callers hold
SendInputs ==
    {<<>>,
     RoundTripInput,
     <<[role |-> "User", content |-> "hi"],
       [role |-> "Assistant", content |-> ""]>>}

NoReply == [error |-> None, status |-> None, body |-> None]

Start(inputs) ==
    /\ provider \in Providers
    /\ messages \in inputs
    /\ pc = [c \in Calls |-> "idle"]
    /\ request = [c \in Calls |-> None]
    /\ outbound = [c \in Calls |-> <<>>]
    /\ reply = [c \in Calls |-> NoReply]
    /\ result = [c \in Calls |-> None]

Init == Start([Calls -> SendInputs])

\* send_message up to the point send().await first returns, on the
\* conversation msgs: convert, build the request, set the headers and the
\* JSON body.  With a key that is a header value the POST goes to the
\* transport and the call waits; otherwise the builder holds an error, send()
\* resolves to it at once, and map_err and `?` return it.
InvokeWith(c, msgs) ==
    /\ pc[c] = "idle"
    /\ LET req == BuildRequest(provider, msgs) IN
       /\ request' = [request EXCEPT ![c] = Some(req)]
       /\ IF is_valid_header_value(provider.api_key)
          THEN /\ outbound' = [outbound EXCEPT ![c] = Append(@, Post(provider, req))]
               /\ pc' = [pc EXCEPT ![c] = "send"]
               /\ UNCHANGED <<reply, result>>
          ELSE /\ reply' = [reply EXCEPT ![c].error = Some(BuilderError)]
               /\ result' = [result EXCEPT ![c] = Some(map_send_error(BuilderError))]
               /\ pc' = [pc EXCEPT ![c] = "done"]
               /\ UNCHANGED outbound
    /\ UNCHANGED <<provider, messages>>

\* mutant: the request is assembled from a conversation buffer shared by
\* the callers (the one of caller "A")
Invoke_shared_buffer(c) == InvokeWith(c, messages["A"])

\* send_message called by c on its own conversation
Invoke(c) == InvokeWith(c, messages[c])

\* mutant: a timed-out request is issued again
SendFails_retry(c) ==
    /\ pc[c] = "send"
    /\ \E e \in TransportErrors :
         IF e.is_timeout /\ Len(outbound[c]) < 2
         THEN /\ outbound' = [outbound EXCEPT ![c] = Append(@, Post(provider, request[c][1]))]
              /\ UNCHANGED <<reply, result, pc>>
         ELSE /\ reply' = [reply EXCEPT ![c].error = Some(e)]
              /\ result' = [result EXCEPT ![c] = Some(map_send_error(e))]
              /\ pc' = [pc EXCEPT ![c] = "done"]
              /\ UNCHANGED outbound
    /\ UNCHANGED <<provider, messages, request>>

\* send().await resolves to an error: map_err and `?` return it
SendFails(c) ==
    /\ pc[c] = "send"
    /\ \E e \in TransportErrors :
         /\ reply' = [reply EXCEPT ![c].error = Some(e)]
         /\ result' = [result EXCEPT ![c] = Some(map_send_error(e))]
    /\ pc' = [pc EXCEPT ![c] = "done"]
    /\ UNCHANGED <<provider, messages, request, outbound>>

\* mutant: the status is not looked at before the body is deserialized
SendResponds_no_status_check(c) ==
    /\ pc[c] = "send"
    /\ \E status \in StatusCodes :
         /\ reply' = [reply EXCEPT ![c].status = Some(status)]
         /\ pc' = [pc EXCEPT ![c] = "json"]
    /\ UNCHANGED <<provider, messages, request, outbound, result>>

\* send().await resolves to a response: its status decides which body read
\* the call awaits next
SendResponds(c) ==
    /\ pc[c] = "send"
    /\ \E status \in StatusCodes :
         /\ reply' = [reply EXCEPT ![c].status = Some(status)]
         /\ pc' = [pc EXCEPT ![c] = IF is_success(status) THEN "json" ELSE "text"]
    /\ UNCHANGED <<provider, messages, request, outbound, result>>

\* response.text().await of a non-success response resolves
TextArrives(c) ==
    /\ pc[c] = "text"
    /\ \E body \in Bodies :
         /\ reply' = [reply EXCEPT ![c].body = Some(body)]
         /\ result' = [result EXCEPT ![c] = Some(http_error(reply[c].status[1], body))]
    /\ pc' = [pc EXCEPT ![c] = "done"]
    /\ UNCHANGED <<provider, messages, request, outbound>>

\* response.json().await of a success response resolves
JsonArrives(c) ==
    /\ pc[c] = "json"
    /\ \E body \in Bodies :
         /\ reply' = [reply EXCEPT ![c].body = Some(body)]
         /\ result' = [result EXCEPT ![c] = Some(translate_body(body))]
    /\ pc' = [pc EXCEPT ![c] = "done"]
    /\ UNCHANGED <<provider, messages, request, outbound>>

Next ==
    \E c \in Calls :
        \/ Invoke(c)
        \/ SendFails(c)
        \/ SendResponds(c)
        \/ TextArrives(c)
        \/ JsonArrives(c)

Spec == Init /\ [][Next]_vars

\* convert_messages over every conversation of at most MaxLen messages:
\* caller "A" holds the conversation and starts its call
InitConvert ==
    Start({m \in [Calls -> SeqsUpTo(Message, MaxLen)] : m["B"] = <<>>})

NextConvert == Invoke("A")

SpecConvert == InitConvert /\ [][NextConvert]_vars

----------------------------------------------------------------------------
(* Vocabulary of the properties *)

Started(c) == pc[c] # "idle"

Done(c) == pc[c] = "done"

HasSystem(msgs) == \E i \in 1..Len(msgs) : msgs[i].role = "System"

\* the contents of the System messages, in conversation order
SystemContents(msgs) ==
    LET sys == SelectSeq(msgs, LAMBDA m : m.role = "System")
    IN [i \in 1..Len(sys) |-> sys[i].content]

\* the messages that are not System messages, in conversation order
NonSystem(msgs) == SelectSeq(msgs, LAMBDA m : m.role # "System")

\* the texts of a non-empty sequence, joined by a blank line
RECURSIVE JoinBlank(_)
JoinBlank(texts) ==
    IF Len(texts) = 1
    THEN texts[1]
    ELSE texts[1] \o "\n\n" \o JoinBlank(Tail(texts))

BackendRole(role) == IF role = "User" THEN "user" ELSE "assistant"

\* a body that matches the response schema
WellFormed(body) ==
    /\ body.kind = "json"
    /\ {"id", "type", "role", "content", "model"} \subseteq DOMAIN body.value
    /\ \A i \in 1..Len(body.value.content) :
          {"type", "text"} \subseteq DOMAIN body.value.content[i]

Failed(c) == Done(c) /\ ~result[c][1].ok

\* the leading piece of a failed call's error description
Description(c) == result[c][1].message[1]

StatusFailure(c) ==
    /\ Done(c)
    /\ reply[c].status # None
    /\ ~is_success(reply[c].status[1])

----------------------------------------------------------------------------
(* C1 *)

\* C1: for every input sequence the system field of the request is the
\* contents of all System messages, in their original order, joined by
\* "\n\n" (absent when there is none), and no System message becomes an entry
\* of the turn list: the turns are as many as the non-System messages and
\* none carries a system role.
C1_SystemExtraction ==
    \A c \in Calls :
        Started(c) =>
            LET req == request[c][1]
                sys == SystemContents(messages[c])
            IN /\ req.system = IF sys = <<>> THEN None ELSE Some(JoinBlank(sys))
               /\ Len(req.messages) + Len(sys) = Len(messages[c])
               /\ \A i \in 1..Len(req.messages) :
                     req.messages[i].role \in {"user", "assistant"}

\* a started call whose conversation has System messages on both sides of a
\* User turn
C1_Witness ==
    /\ Started("A")
    /\ messages["A"] = <<[role |-> "System", content |-> "be concise"],
                         [role |-> "User", content |-> "hi"],
                         [role |-> "System", content |-> "hi"]>>
    /\ request["A"][1].system = Some("be concise\n\nhi")
    /\ Len(request["A"][1].messages) = 1

----------------------------------------------------------------------------
(* C2 *)

\* C2: the serialized request has a "system" key exactly when the input holds
\* a System message; with none the key is absent (not null, not ""), and
\* when present it is the extracted system text.
C2_SystemOmitted ==
    \A c \in Calls :
        Started(c) =>
            /\ (request[c][1].system # None) <=> HasSystem(messages[c])
            /\ \A i \in 1..Len(outbound[c]) :
                  LET body == outbound[c][i].json IN
                  /\ ("system" \in DOMAIN body) <=> HasSystem(messages[c])
                  /\ "system" \in DOMAIN body => body.system = request[c][1].system[1]

\* a started call with turns and no System message: no system key on the wire
C2_Witness ==
    /\ Started("A")
    /\ Len(messages["A"]) = 2
    /\ ~HasSystem(messages["A"])
    /\ Len(outbound["A"]) = 1
    /\ "system" \notin DOMAIN outbound["A"][1].json

----------------------------------------------------------------------------
(* C3 *)

\* C3: the turn list has one entry per non-System input message, and the
\* i-th turn has the backend role and the verbatim content of the i-th
\* non-System message; the same list goes on the wire.
C3_TurnsPositional ==
    \A c \in Calls :
        Started(c) =>
            LET turns == request[c][1].messages
                ns    == NonSystem(messages[c])
            IN /\ Len(turns) = Len(ns)
               /\ \A i \in 1..Len(ns) :
                     /\ turns[i].role = BackendRole(ns[i].role)
                     /\ turns[i].content = ns[i].content
               /\ \A i \in 1..Len(outbound[c]) :
                     outbound[c][i].json.messages = turns

\* a started call with a repeated content, an Assistant turn and a System
\* message in between
C3_Witness ==
    /\ Started("A")
    /\ messages["A"] = <<[role |-> "Assistant", content |-> "hi"],
                         [role |-> "System", content |-> "be concise"],
                         [role |-> "User", content |-> "hi"]>>
    /\ request["A"][1].messages = <<[role |-> "assistant", content |-> "hi"],
                                    [role |-> "user", content |-> "hi"]>>

----------------------------------------------------------------------------
(* C4 *)

\* what distinguishes two status classes for a caller that branches on the
\* error kind
StatusClass(status) ==
    IF status = UNAUTHORIZED THEN "unauthorized"
    ELSE IF status = TOO_MANY_REQUESTS THEN "rate_limited"
    ELSE "other"

\* C4: a reply with a non-success status fails the call with a kind set by
\* the status: 401 gives the authentication failure, 429 the rate-limit
\* failure, any other status the HTTP failure carrying that status; and the
\* three are error kinds a caller can tell apart without reading the text.
C4_StatusKinds ==
    /\ \A c \in Calls :
          StatusFailure(c) =>
              LET status == reply[c].status[1] IN
              /\ ~result[c][1].ok
              /\ status = UNAUTHORIZED =>
                    Description(c) = "Anthropic API authentication failed: Invalid API key"
              /\ status = TOO_MANY_REQUESTS =>
                    Description(c) = "Anthropic API rate limit exceeded"
              /\ status \notin {UNAUTHORIZED, TOO_MANY_REQUESTS} =>
                    /\ Description(c) = "Anthropic API HTTP "
                    /\ result[c][1].message[2] = status
    /\ \A a, b \in Calls :
          /\ StatusFailure(a)
          /\ StatusFailure(b)
          /\ StatusClass(reply[a].status[1]) # StatusClass(reply[b].status[1])
          => result[a][1].variant # result[b][1].variant

----------------------------------------------------------------------------
(* C5 *)

\* C5: a success status with a well-formed body whose content list is empty
\* ends the call with the no-content error, never with a text.
C5_EmptyContent ==
    \A c \in Calls :
        /\ Done(c)
        /\ reply[c].status # None
        /\ is_success(reply[c].status[1])
        /\ WellFormed(reply[c].body[1])
        /\ reply[c].body[1].value.content = <<>>
        => /\ ~result[c][1].ok
           /\ result[c][1].message = <<"Anthropic response contained no content">>

\* a call that ended on a 200 reply with a well-formed, empty content list
C5_Witness ==
    /\ Done("A")
    /\ reply["A"].status = Some(200)
    /\ reply["A"].body = Some([kind |-> "json", value |-> MessageObject(<<>>)])
    /\ ~result["A"][1].ok

----------------------------------------------------------------------------
(* C6 *)

\* C6: a call that returns a text returns the text of the first content item
\* of its reply, however many items follow; and the conversation
\* [System "be concise", User "hi"] is sent with system = "be concise" and
\* the single turn (user, "hi").
C6_FirstItem ==
    \A c \in Calls :
        /\ Done(c) /\ result[c][1].ok =>
              /\ reply[c].body # None
              /\ WellFormed(reply[c].body[1])
              /\ reply[c].body[1].value.content # <<>>
              /\ result[c][1].text = reply[c].body[1].value.content[1].text
        /\ Started(c) /\ messages[c] = RoundTripInput =>
              /\ request[c][1].system = Some("be concise")
              /\ request[c][1].messages = <<[role |-> "user", content |-> "hi"]>>

\* the round trip: the reply's first item says "hello", a second item follows
C6_Witness ==
    /\ Done("A")
    /\ messages["A"] = RoundTripInput
    /\ reply["A"].body = Some([kind |-> "json",
                               value |-> MessageObject(<<TextBlock("hello"),
                                                         TextBlock("bye")>>)])
    /\ result["A"] = Some(Ok("hello"))

----------------------------------------------------------------------------
(* C7 *)

\* C7 as stated: a call that has not started has issued no request, and a
\* started call has issued exactly one, at every later point and whatever it
\* returned.
C7_OneRequest ==
    \A c \in Calls :
        /\ ~Started(c) => outbound[c] = <<>>
        /\ Started(c) => Len(outbound[c]) = 1

\* C7 as amended: a started call has issued exactly one request when the
\* provider's api_key is a valid header value, at every later point and
\* whatever it returned; with any other key it has issued none and is done
\* with the request-failed error.  No call ever issues a second request.
C7_OneRequestIfBuilt ==
    \A c \in Calls :
        /\ ~Started(c) => outbound[c] = <<>>
        /\ Started(c) =>
              IF is_valid_header_value(provider.api_key)
              THEN Len(outbound[c]) = 1
              ELSE /\ outbound[c] = <<>>
                   /\ Done(c)
                   /\ ~result[c][1].ok
                   /\ Description(c) = "Anthropic API request failed: "

\* one call ended on a timeout, the other on an empty content list: each
\* with one request issued
C7_Witness ==
    /\ Done("A")
    /\ reply["A"].error # None
    /\ reply["A"].error[1].is_timeout
    /\ Len(outbound["A"]) = 1
    /\ Done("B")
    /\ reply["B"].body = Some([kind |-> "json", value |-> MessageObject(<<>>)])
    /\ Len(outbound["B"]) = 1

----------------------------------------------------------------------------
(* C8 *)

\* what send_message returns for a completed reply
Outcome(r) ==
    IF r.error # None THEN map_send_error(r.error[1])
    ELSE IF ~is_success(r.status[1]) THEN http_error(r.status[1], r.body[1])
    ELSE translate_body(r.body[1])

Isolated ==
    \A c \in Calls :
        /\ Started(c) =>
              /\ request[c][1].system =
                    (IF HasSystem(messages[c])
                     THEN Some(JoinBlank(SystemContents(messages[c])))
                     ELSE None)
              /\ Len(request[c][1].messages) = Len(NonSystem(messages[c]))
              /\ \A i \in 1..Len(request[c][1].messages) :
                    request[c][1].messages[i].content = NonSystem(messages[c])[i].content
              /\ request[c][1].model = provider.model
              /\ \A i \in 1..Len(outbound[c]) :
                    outbound[c][i] = Post(provider, request[c][1])
        /\ Done(c) => result[c] = Some(Outcome(reply[c]))

\* C8: under every interleaving of the two calls, each call's request is
\* built from its own conversation (and the provider's configuration), each
\* call returns what its own reply translates to, and no step changes the
\* provider's configuration.
C8_Independent == [](Isolated) /\ [][provider' = provider]_vars

\* both calls done, on different conversations, with different results
C8_Witness ==
    /\ Done("A") /\ Done("B")
    /\ messages["A"] = RoundTripInput
    /\ messages["B"] = <<>>
    /\ result["A"] = Some(Ok("hello"))
    /\ ~result["B"][1].ok
    /\ request["A"] # request["B"]

----------------------------------------------------------------------------
(* C9 *)

\* the cause of a failed call, from what the transport delivered
Cause(c) ==
    LET r == reply[c] IN
    IF r.error # None
    THEN IF r.error[1].is_timeout THEN "deadline"
         ELSE IF r.error[1].is_connect THEN "unreachable"
         ELSE "other"
    ELSE IF ~is_success(r.status[1]) THEN "http_status"
    ELSE IF r.body[1].kind = "read_error"
    THEN IF r.body[1].is_timeout THEN "deadline" ELSE "other"
    ELSE IF ~WellFormed(r.body[1]) THEN "schema"
    ELSE "other"

\* C9: a deadline overrun is reported as the timeout failure, and calls that
\* failed for different causes among deadline, unreachable endpoint, schema
\* mismatch and HTTP status carry different error kinds.
C9_CausesDistinctKinds ==
    /\ \A c \in Calls :
          Failed(c) /\ Cause(c) = "deadline" =>
              Description(c) = "Anthropic API request timeout: "
    /\ \A a, b \in Calls :
          /\ Failed(a) /\ Failed(b)
          /\ Cause(a) # "other" /\ Cause(b) # "other"
          /\ Cause(a) # Cause(b)
          => result[a][1].variant # result[b][1].variant

----------------------------------------------------------------------------
(* C10 *)

\* C10: a call has a result exactly when it is done, and the result is set
\* by the first stage that fails, in the order transport, status, body
\* schema, content: a transport failure ends the call before any status or
\* body is seen, a non-success status fails it whatever the body holds, and
\* a text is returned only past all four stages.
C10_StagedOutcome ==
    \A c \in Calls :
        /\ (result[c] # None) <=> Done(c)
        /\ Done(c) =>
              LET r == reply[c] IN
              IF r.error # None
              THEN /\ ~result[c][1].ok
                   /\ r.status = None /\ r.body = None
                   /\ Description(c) \in {"Anthropic API request timeout: ",
                                          "Anthropic API connection error: ",
                                          "Anthropic API request failed: "}
              ELSE IF ~is_success(r.status[1])
              THEN /\ ~result[c][1].ok
                   /\ Description(c) = "Anthropic API HTTP "
              ELSE IF ~WellFormed(r.body[1])
              THEN /\ ~result[c][1].ok
                   /\ Description(c) = "Failed to deserialize Anthropic response: "
              ELSE IF r.body[1].value.content = <<>>
              THEN /\ ~result[c][1].ok
                   /\ Description(c) = "Anthropic response contained no content"
              ELSE result[c][1].ok

\* a call answered with status 500 and a well-formed body with content
C10_Witness ==
    /\ Done("A")
    /\ reply["A"].status = Some(500)
    /\ reply["A"].body = Some([kind |-> "json",
                               value |-> MessageObject(<<TextBlock("hello")>>)])
    /\ ~result["A"][1].ok

====
